---- MODULE Spec2Model ----
(***************************************************************************)
(* Model of the storageHelper warehouse bot (src/main.py).                 *)
(*                                                                         *)
(* A message text is a sequence of atoms.  An atom is one character        *)
(* (" ", "|", "-", "+", a digit, a letter) or one indivisible word of the  *)
(* source ("/add", "Equipment" for "Оборудование", "Components" for        *)
(* "Компоненты", ...).  The handlers split, strip and parse these texts    *)
(* as the Python code does.                                                *)
(*                                                                         *)
(* The module `database` (class StorageDB) is not part of src/; its        *)
(* operations used by the handlers are modelled from the specification.    *)
(***************************************************************************)
EXTENDS Integers, Sequences, FiniteSets, TLC

VARIABLES ledger, audit, session, pc, last, scope

vars == <<ledger, audit, session, pc, last, scope>>

\* ------------------------------------------------------------------ bounds
MaxItems == 1       \* items per category
MaxQty   == 2       \* largest quantity an adjustment may reach
MaxAudit == 2       \* audit entries

Actors == {1, 2}

\* ------------------------------------------------------- text primitives
Digits == {"0", "1", "2"}

DigitVal(d) == CASE d = "0" -> 0 [] d = "1" -> 1 [] d = "2" -> 2

\* Index of the first occurrence of atom c in s, 0 when there is none.
RECURSIVE FindFrom(_, _, _)
FindFrom(s, c, i) ==
    IF i > Len(s) THEN 0
    ELSE IF s[i] = c THEN i
    ELSE FindFrom(s, c, i + 1)

\* str.split(sep) with an explicit separator: empty pieces are kept.
RECURSIVE SplitOn(_, _)
SplitOn(s, sep) ==
    LET i == FindFrom(s, sep, 1)
    IN  IF i = 0 THEN <<s>>
        ELSE <<SubSeq(s, 1, i - 1)>> \o SplitOn(SubSeq(s, i + 1, Len(s)), sep)

\* str.strip(): leading and trailing blanks removed.
RECURSIVE LStrip(_)
LStrip(s) == IF s # <<>> /\ Head(s) = " " THEN LStrip(Tail(s)) ELSE s

RECURSIVE RStrip(_)
RStrip(s) ==
    IF s # <<>> /\ s[Len(s)] = " " THEN RStrip(SubSeq(s, 1, Len(s) - 1)) ELSE s

Strip(s) == LStrip(RStrip(s))

NonEmpty(s) == s # <<>>

\* str.split() without arguments: split on runs of blanks, no empty pieces.
SplitWS(s) == SelectSeq(SplitOn(s, " "), NonEmpty)

\* str.split(maxsplit=n): at most n splits, the rest of the text is the
\* last piece (leading blanks of the rest removed, trailing ones kept).
RECURSIVE SplitMax(_, _)
SplitMax(s, n) ==
    LET t == LStrip(s)
        i == FindFrom(t, " ", 1)
    IN  IF t = <<>> THEN <<>>
        ELSE IF n = 0 THEN <<t>>
        ELSE IF i = 0 THEN <<t>>
        ELSE <<SubSeq(t, 1, i - 1)>> \o SplitMax(SubSeq(t, i + 1, Len(t)), n - 1)

\* str.isdigit(): non-empty and every character a digit.
IsDigit(s) == s # <<>> /\ \A i \in 1..Len(s) : s[i] \in Digits

RECURSIVE DecVal(_)
DecVal(s) == IF s = <<>> THEN 0 ELSE 10 * DecVal(SubSeq(s, 1, Len(s) - 1)) + DigitVal(s[Len(s)])

\* int(s): blanks around the literal are ignored, an optional sign, then
\* digits; anything else raises ValueError.
IsInt(s) ==
    LET t == Strip(s)
    IN  /\ t # <<>>
        /\ IF Head(t) \in {"-", "+"} THEN IsDigit(Tail(t)) ELSE IsDigit(t)

IntOf(s) ==
    LET t == Strip(s)
    IN  IF Head(t) = "-" THEN 0 - DecVal(Tail(t))
        ELSE IF Head(t) = "+" THEN DecVal(Tail(t))
        ELSE DecVal(t)

Abs(n) == IF n < 0 THEN 0 - n ELSE n

\* Concatenation of the pieces with sep between them (builds the inputs).
RECURSIVE Join(_, _)
Join(ps, sep) ==
    IF ps = <<>> THEN <<>>
    ELSE IF Len(ps) = 1 THEN ps[1]
    ELSE ps[1] \o <<sep>> \o Join(Tail(ps), sep)

\* ------------------------------------------------------------ vocabulary
EQUIPMENT  == <<"Equipment">>       \* "Оборудование"
COMPONENTS == <<"Components">>      \* "Компоненты"
ALL        == <<"ALL">>

ItemTypes == {EQUIPMENT, COMPONENTS}

\* FSM states of aiogram: None (no state) and the three of NewItemStates.
NewItemStates == {"CHOOSE_TYPE", "INPUT_EQUIPMENT", "INPUT_COMPONENT"}
NoState == "None"
NoData  == <<>>

\* ----------------------------------------------------------------- inputs
N == <<"N">>
T == <<"T">>
S == <<"S">>

F(ps) == Join(ps, "|")
W(ps) == Join(ps, " ")

FieldTexts ==
    { F(<<N, <<" ", "T", " ">>, <<" ", "1">>>>),   \* "N| T | 1"
      F(<<N, T, <<"-", "1">>>>),                   \* "N|T|-1"
      F(<<N, T, <<"a">>>>),                        \* "N|T|a"
      F(<<N, T>>),                                 \* "N|T"
      F(<<N, <<"2">>, S, T>>),                     \* "N|2|S|T"
      F(<<N, <<"-", "1">>, S, T>>),                \* "N|-1|S|T"
      F(<<N, T, <<"1">>, S>>) }                    \* "N|T|1|S"

ModifyTexts ==
    { W(<<<<"/add">>, EQUIPMENT, <<"1">>, <<"1">>>>),
      W(<<<<"/add">>, EQUIPMENT, <<"1">>, <<"-", "1">>>>),
      W(<<<<"/add">>, EQUIPMENT, <<"1">>, <<"0">>>>),
      W(<<<<"/give">>, EQUIPMENT, <<"1">>, <<"1">>>>),
      W(<<<<"/give">>, EQUIPMENT, <<"1">>, <<"-", "1">>>>),
      W(<<<<"/give">>, EQUIPMENT, <<"1">>, <<"0">>>>),
      W(<<<<"/give">>, EQUIPMENT, <<"1">>, <<"2">>>>),
      W(<<<<"/add">>, COMPONENTS, <<"1">>, <<"1">>>>),
      W(<<<<"/give">>, COMPONENTS, <<"1">>, <<"2">>>>),
      W(<<<<"/add">>, EQUIPMENT, <<"2">>, <<"1">>>>),          \* item 2
      W(<<<<"/add">>, <<"X">>, <<"1">>, <<"1">>>>),            \* unknown type
      W(<<<<"/give">>, EQUIPMENT, <<"a">>, <<"1">>>>),         \* id not int
      W(<<<<"/give">>, EQUIPMENT, <<"1">>, <<"a">>>>),         \* qty not int
      W(<<<<"/add">>, EQUIPMENT, <<"1">>>>),                   \* 2 arguments
      W(<<<<"/add">>, <<"N", "|", "T", "|", "1">>>>),          \* "/add N|T|1"
      W(<<<<"/add">>, EQUIPMENT, <<"1">>, <<"1">>, <<"1">>>>)  \* 4 arguments
    }

SearchTexts ==
    { W(<<<<"/search">>, EQUIPMENT, <<"1">>>>),
      W(<<<<"/search">>, COMPONENTS, <<"1">>>>),
      W(<<<<"/search">>, <<"X">>, <<"1">>>>),
      W(<<<<"/search">>, EQUIPMENT, <<"n">>>>),
      W(<<<<"/search">>, <<"X">>, <<"a">>>>),
      W(<<<<"/search">>, EQUIPMENT>>),
      <<"/search">> }

Texts ==
    {<<"/start">>, <<"/cancel">>, <<"/add_new">>}
        \cup ModifyTexts \cup SearchTexts \cup FieldTexts

CallbackData == {"equipment", "component", "other"}

\* ------------------------------------------- StorageDB (from the spec)
None == [id |-> 0]

NewEquipment(name, eq_type, qty) ==
    [name |-> name, quantity |-> qty, type |-> eq_type, size |-> <<>>]

NewComponent(name, qty, size, comp_type) ==
    [name |-> name, quantity |-> qty, type |-> comp_type, size |-> size]

Exists(l, item_type, item_id) ==
    /\ item_type \in DOMAIN l
    /\ item_id \in 1..Len(l[item_type])

\* getById(category, id) -> Item | NotFound
get_by_id(l, item_type, item_id) ==
    IF Exists(l, item_type, item_id)
    THEN LET r == l[item_type][item_id]
         IN  [id |-> item_id, item_type |-> item_type, name |-> r.name,
              quantity |-> r.quantity, type |-> r.type, size |-> r.size]
    ELSE None

\* adjustQuantity: rejected if the item does not exist or new < 0
update_quantity_ok(l, item_type, item_id, delta) ==
    /\ Exists(l, item_type, item_id)
    /\ l[item_type][item_id].quantity + delta >= 0

update_quantity(l, item_type, item_id, delta) ==
    [l EXCEPT ![item_type][item_id].quantity = @ + delta]

\* insert(category, fields) -> newId: a monotonic counter per category
new_id(l, item_type) == Len(l[item_type]) + 1

insert(l, item_type, rec) == [l EXCEPT ![item_type] = Append(@, rec)]

\* append(entry)
log_action(log, user_id, action, item_type, item_id) ==
    Append(log, [user_id |-> user_id, action |-> action,
                 item_type |-> item_type, item_id |-> item_id])

Lower(c) == CASE c = "N" -> "n" [] c = "T" -> "t" [] c = "S" -> "s" [] OTHER -> c

LowerText(s) == [i \in 1..Len(s) |-> Lower(s[i])]

Contains(s, term) ==
    \E i \in 1..(Len(s) - Len(term) + 1) : SubSeq(s, i, i + Len(term) - 1) = term

\* searchByName(term): case-insensitive substring match, all categories
search_by_name(l, term) ==
    UNION { { <<t, i>> : i \in { j \in 1..Len(l[t]) :
                  Contains(LowerText(l[t][j].name), LowerText(term)) } } :
            t \in ItemTypes }

\* ---------------------------------------------------------------- state
\* ledger  : item_type -> sequence of items, the id of an item is its index
\* audit   : the audit log, oldest entry first
\* session : actor -> FSM context (state, data["item_type"])
\* pc      : actor -> position of the actor's running handler; a handler is
\*           cut where it awaits the transport between two store calls
\* last    : the step just taken: who, which handler, the FSM state it was
\*           dispatched in, the message answered, its body, the store call
\*           made, and what the step did in program
\*           order: "store" (a ledger mutation), "audit" (log_action),
\*           "reply" (answer), "state" (set_state / clear)
\* scope   : the users that write to the bot in this run and what they
\*           send; fixed by Init, it bounds the run
Ready == [at |-> "ready", item_id |-> 0]

NoCall == <<>>

Step(a, handler, reply, body, call, events) ==
    [actor |-> a, handler |-> handler, from |-> session[a].state,
     reply |-> reply, body |-> body, call |-> call, events |-> events]

\* "solo": one user, everything a user can send.
\* "duo": two users at once: registration of equipment, adjustments and a
\* lookup of the item being registered.
DuoTexts ==
    { <<"/add_new">>, <<"/cancel">>,
      F(<<N, <<" ", "T", " ">>, <<" ", "1">>>>),
      W(<<<<"/add">>, EQUIPMENT, <<"1">>, <<"1">>>>),
      W(<<<<"/give">>, EQUIPMENT, <<"1">>, <<"1">>>>),
      W(<<<<"/search">>, EQUIPMENT, <<"1">>>>) }

Scopes == {"solo", "duo"}

ScopeActors(sc) == IF sc = "solo" THEN {1} ELSE Actors

ScopeTexts(sc) == IF sc = "solo" THEN Texts ELSE DuoTexts

ScopeData(sc) == IF sc = "solo" THEN CallbackData ELSE {"equipment"}

Init ==
    /\ ledger = [t \in ItemTypes |-> <<>>]
    /\ audit = <<>>
    /\ session = [a \in Actors |-> [state |-> NoState, data |-> NoData]]
    /\ pc = [a \in Actors |-> Ready]
    /\ last = [actor |-> 0, handler |-> "none", from |-> NoState,
               reply |-> "none", body |-> <<>>, call |-> NoCall,
               events |-> <<>>]
    /\ scope \in Scopes

\* User a sends the text / presses the button with the callback data.
Sends(a, text) == a \in ScopeActors(scope) /\ text \in ScopeTexts(scope)

Presses(a, data) == a \in ScopeActors(scope) /\ data \in ScopeData(scope)

\* An audit entry may be written: the log has room for it and for the
\* entries of the handlers that have inserted and not yet logged.
LogRoom ==
    Len(audit) + Cardinality({b \in Actors : pc[b].at # "ready"}) < MaxAudit

\* ------------------------------------------------------------- dispatching
\* Command(...) filter: the first word of the text is the command.
CommandOf(text) ==
    LET w == SplitWS(text) IN IF w = <<>> THEN <<>> ELSE w[1]

Commands == {"/start", "/cancel", "/search", "/add", "/give", "/add_new"}

IsCommand(text, names) == CommandOf(text) \in { <<c>> : c \in names }

StartTexts   == { t \in Texts : IsCommand(t, {"/start"}) }
CancelTexts  == { t \in Texts : IsCommand(t, {"/cancel"}) }
SearchCmds   == { t \in Texts : IsCommand(t, {"/search"}) }
ModifyCmds   == { t \in Texts : IsCommand(t, {"/add", "/give"}) }
AddNewTexts  == { t \in Texts : IsCommand(t, {"/add_new"}) }
PlainTexts_with_commands == Texts

\* The handlers with a state filter are registered after the command
\* handlers: they get the texts no Command filter has taken.
PlainTexts == { t \in Texts : ~IsCommand(t, Commands) }

\* What each handler's first statement makes of each text.
SearchArgs  == [t \in SearchCmds |-> SplitMax(t, 2)]    \* split(maxsplit=2)
ModifyWords == [t \in ModifyCmds |-> SplitWS(t)]        \* split()

\* ---------------------------------------------------------------- helpers
format_item_info(item_type, item) ==
    IF item_type = EQUIPMENT
    THEN <<item_type, item.id, item.name, item.quantity, item.type>>
    ELSE <<item_type, item.id, item.name, item.quantity, item.size, item.type>>

\* ---------------------------------------------------------------- handlers
cmd_start(a, text) ==
    /\ pc[a] = Ready
    /\ Sends(a, text)
    /\ text \in StartTexts
    /\ last' = Step(a, "cmd_start", "help", <<>>, NoCall, <<"reply">>)
    /\ UNCHANGED <<ledger, audit, session, pc, scope>>

cmd_cancel_keeps_data(a, text) ==
    /\ pc[a] = Ready
    /\ Sends(a, text)
    /\ text \in CancelTexts
    /\ session' = [session EXCEPT ![a].state = NoState]
    /\ last' = Step(a, "cmd_cancel", "cancelled", <<>>, NoCall,
                    <<"state", "reply">>)
    /\ UNCHANGED <<ledger, audit, pc, scope>>

cmd_cancel_everyone(a, text) ==
    /\ pc[a] = Ready
    /\ Sends(a, text)
    /\ text \in CancelTexts
    /\ session' = [b \in Actors |-> [state |-> NoState, data |-> NoData]]
    /\ last' = Step(a, "cmd_cancel", "cancelled", <<>>, NoCall,
                    <<"state", "reply">>)
    /\ UNCHANGED <<ledger, audit, pc, scope>>

cmd_cancel(a, text) ==
    /\ pc[a] = Ready
    /\ Sends(a, text)
    /\ text \in CancelTexts
    /\ session' = [session EXCEPT ![a] = [state |-> NoState, data |-> NoData]]
    /\ last' = Step(a, "cmd_cancel", "cancelled", <<>>, NoCall,
                    <<"state", "reply">>)
    /\ UNCHANGED <<ledger, audit, pc, scope>>

search_empty_never(results) == FALSE

\* if not results: return await message.answer("🔎 Ничего не найдено")
search_empty(results) == results = {}

cmd_search(a, text) ==
    /\ pc[a] = Ready
    /\ Sends(a, text)
    /\ text \in SearchCmds
    /\ LET args == SearchArgs[text]
       IN  IF Len(args) < 3
           THEN /\ last' = Step(a, "cmd_search", "search_usage", <<>>, NoCall,
                                <<"reply">>)
                /\ UNCHANGED audit
           ELSE LET item_type   == Strip(args[2])
                    search_term == Strip(args[3])
                IN  IF IsDigit(search_term)
                    THEN LET item_id == IntOf(search_term)
                             item    == get_by_id(ledger, item_type, item_id)
                             call    == <<"get_by_id", item_type, item_id>>
                         IN  IF item = None
                             THEN /\ last' = Step(a, "cmd_search", "not_found",
                                                  <<>>, call, <<"reply">>)
                                  /\ UNCHANGED audit
                             ELSE /\ LogRoom
                                  /\ audit' = log_action(audit, a, "SEARCH",
                                                         item.item_type, item_id)
                                  /\ last' = Step(a, "cmd_search", "item",
                                         format_item_info(item.item_type, item),
                                         call, <<"audit", "reply">>)
                    ELSE LET results == search_by_name(ledger, search_term)
                             call    == <<"search_by_name", search_term>>
                         IN  IF search_empty(results)
                             THEN /\ last' = Step(a, "cmd_search", "no_results",
                                                  <<>>, call, <<"reply">>)
                                  /\ UNCHANGED audit
                             ELSE /\ LogRoom
                                  /\ audit' = log_action(audit, a, "SEARCH", ALL, 0)
                                  /\ last' = Step(a, "cmd_search", "results",
                                                  results, call,
                                                  <<"audit", "reply">>)
    /\ UNCHANGED <<ledger, session, pc, scope>>

\* qty = -abs(qty) for /give
modify_qty(command, qty) == IF command = <<"/give">> THEN 0 - Abs(qty) ELSE qty

\* item_type in ["Оборудование", "Компоненты"]
modify_type_ok(item_type) == item_type \in {EQUIPMENT, COMPONENTS}

modify_action_swapped(qty) == IF qty > 0 THEN "GIVE" ELSE "ADD"

\* action = "ADD" if qty > 0 else "GIVE"
modify_action(qty) == IF qty > 0 THEN "ADD" ELSE "GIVE"

modify_format_error_no_type(w) ==
    \/ Len(w) # 4
    \/ ~IsInt(w[3])
    \/ ~IsInt(w[4])

\* The try block raises ValueError before the store is called.
modify_format_error(w) ==
    \/ Len(w) # 4
    \/ ~IsInt(w[3])
    \/ ~IsInt(w[4])
    \/ ~modify_type_ok(w[2])

\* The ledger after cmd_modify has handled the words w of a message.
modify_ledger(l, w) ==
    IF modify_format_error(w) THEN l
    ELSE LET item_type == w[2]
             item_id   == IntOf(w[3])
             qty       == modify_qty(w[1], IntOf(w[4]))
         IN  IF update_quantity_ok(l, item_type, item_id, qty)
             THEN update_quantity(l, item_type, item_id, qty)
             ELSE l

modify_audit_logs_failure(log, ok, a, item_type, item_id, qty) ==
    log_action(log, a, modify_action(qty), item_type, item_id)

\* if db.update_quantity(...): ... db.log_action(action=action, ...)
\* else: nothing is logged
modify_audit(log, ok, a, item_type, item_id, qty) ==
    IF ok THEN log_action(log, a, modify_action(qty), item_type, item_id)
    ELSE log

\* response = "✅ Успешно обновлено!..." or "❌ Ошибка обновления"
modify_response(ok) == IF ok THEN "updated" ELSE "update_failed"

modify_read_back_stale(before, after, item_type, item_id) ==
    get_by_id(before, item_type, item_id)

\* item = db.get_by_id(item_type, item_id), called right after
\* db.update_quantity(...) with no await in between: it reads the ledger
\* as the update left it.
modify_read_back(before, after, item_type, item_id) ==
    get_by_id(after, item_type, item_id)

cmd_modify(a, text) ==
    /\ pc[a] = Ready
    /\ Sends(a, text)
    /\ text \in ModifyCmds
    /\ LET w == ModifyWords[text]
       IN  IF modify_format_error(w)
           THEN /\ last' = Step(a, "cmd_modify", "bad_format", <<>>, NoCall,
                                <<"reply">>)
                /\ UNCHANGED <<ledger, audit>>
           ELSE LET command   == w[1]
                    item_type == w[2]
                    item_id   == IntOf(w[3])
                    qty       == modify_qty(command, IntOf(w[4]))
                    call      == <<"update_quantity", item_type, item_id, qty>>
                    ok        == update_quantity_ok(ledger, item_type, item_id, qty)
                IN  /\ ok => /\ ledger[item_type][item_id].quantity + qty <= MaxQty
                             /\ LogRoom
                    /\ ledger' = modify_ledger(ledger, w)
                    /\ audit' = modify_audit(audit, ok, a, item_type, item_id, qty)
                    /\ last' = Step(a, "cmd_modify", modify_response(ok),
                           IF ok
                           THEN format_item_info(item_type,
                                    modify_read_back(ledger, ledger',
                                                     item_type, item_id))
                           ELSE <<>>,
                           call,
                           IF ok THEN <<"store", "audit", "reply">>
                                 ELSE <<"reply">>)
    /\ UNCHANGED <<session, pc, scope>>

cmd_add_new_once(a, text) ==
    /\ pc[a] = Ready
    /\ Sends(a, text)
    /\ text \in AddNewTexts
    /\ session' = [session EXCEPT ![a].state =
                       IF @ = NoState THEN "CHOOSE_TYPE" ELSE @]
    /\ last' = Step(a, "cmd_add_new", "choose_type", <<>>, NoCall,
                    <<"reply", "state">>)
    /\ UNCHANGED <<ledger, audit, pc, scope>>

\* await message.answer(...); await state.set_state(CHOOSE_TYPE): the data
\* of the FSM context is not touched.
cmd_add_new(a, text) ==
    /\ pc[a] = Ready
    /\ Sends(a, text)
    /\ text \in AddNewTexts
    /\ session' = [session EXCEPT ![a].state = "CHOOSE_TYPE"]
    /\ last' = Step(a, "cmd_add_new", "choose_type", <<>>, NoCall,
                    <<"reply", "state">>)
    /\ UNCHANGED <<ledger, audit, pc, scope>>

\* item_type = "Оборудование" if callback.data == "equipment" else "Компоненты"
type_of(data) == IF data = "equipment" THEN EQUIPMENT ELSE COMPONENTS

\* set_state(INPUT_EQUIPMENT) or set_state(INPUT_COMPONENT)
input_state(item_type) ==
    IF item_type = EQUIPMENT THEN "INPUT_EQUIPMENT" ELSE "INPUT_COMPONENT"

type_filter_any_state(state, data) == data \in {"equipment", "component"}

\* @dp.callback_query(NewItemStates.CHOOSE_TYPE,
\*                    F.data.in_(["equipment", "component"]))
type_filter(state, data) ==
    state = "CHOOSE_TYPE" /\ data \in {"equipment", "component"}

process_type(a, data) ==
    /\ pc[a] = Ready
    /\ Presses(a, data)
    /\ type_filter(session[a].state, data)
    /\ LET item_type == type_of(data)
       IN  /\ session' = [session EXCEPT ![a] =
                  [state |-> input_state(item_type), data |-> item_type]]
           /\ last' = Step(a, "process_type",
                           IF item_type = EQUIPMENT THEN "prompt_equipment"
                                                    ELSE "prompt_component",
                           <<>>, NoCall, <<"reply", "state">>)
    /\ UNCHANGED <<ledger, audit, pc, scope>>

\* parts = [p.strip() for p in message.text.split("|")]
field_parts(text) ==
    LET ps == SplitOn(text, "|") IN [i \in 1..Len(ps) |-> Strip(ps[i])]

FieldParts == [t \in PlainTexts |-> field_parts(t)]

\* name, eq_type, qty = parts
equipment_fields(parts) ==
    [name |-> parts[1], eq_type |-> parts[2], qty |-> parts[3]]

component_fields_swapped(parts) ==
    [name |-> parts[1], qty |-> parts[2], size |-> parts[4],
     comp_type |-> parts[3]]

\* name, qty, size, comp_type = parts
component_fields(parts) ==
    [name |-> parts[1], qty |-> parts[2], size |-> parts[3],
     comp_type |-> parts[4]]

equipment_error_lax(parts) ==
    IF Len(parts) < 3 THEN "error_count"
    ELSE IF ~IsInt(equipment_fields(parts).qty) THEN "error_value"
    ELSE ""

\* What the try block of process_equipment raises before the insert:
\* "error_count" (len(parts) != 3), "error_value" (int(qty) fails), or ""
\* when nothing is raised.
equipment_error(parts) ==
    IF Len(parts) # 3 THEN "error_count"
    ELSE IF ~IsInt(equipment_fields(parts).qty) THEN "error_value"
    ELSE ""

component_error(parts) ==
    IF Len(parts) # 4 THEN "error_count"
    ELSE IF ~IsInt(component_fields(parts).qty) THEN "error_value"
    ELSE ""

\* First half of process_equipment: parse, insert, answer with the id.  The
\* handler is then suspended in message.answer before it logs.
process_equipment(a, text) ==
    /\ pc[a] = Ready
    /\ session[a].state = "INPUT_EQUIPMENT"
    /\ Sends(a, text)
    /\ text \in PlainTexts
    /\ LET parts == FieldParts[text]
           err   == equipment_error(parts)
       IN  IF err # ""
           THEN /\ last' = Step(a, "process_equipment", err, <<>>, NoCall,
                                <<"reply">>)
                /\ UNCHANGED <<ledger, pc>>
           ELSE LET f       == equipment_fields(parts)
                    item_id == new_id(ledger, EQUIPMENT)
                IN  /\ Len(ledger[EQUIPMENT]) < MaxItems
                    /\ LogRoom
                    /\ ledger' = insert(ledger, EQUIPMENT,
                           NewEquipment(f.name, f.eq_type, IntOf(f.qty)))
                    /\ pc' = [pc EXCEPT ![a] =
                                 [at |-> "equipment_log", item_id |-> item_id]]
                    /\ last' = Step(a, "process_equipment", "added_equipment",
                                    <<item_id>>,
                                    <<"add_new_equipment", EQUIPMENT, item_id,
                                      IntOf(f.qty)>>,
                                    <<"store", "reply">>)
    /\ UNCHANGED <<audit, session, scope>>

\* Second half of process_equipment: log_action, state.clear().
process_equipment_log(a) ==
    /\ pc[a].at = "equipment_log"
    /\ audit' = log_action(audit, a, "ADD_NEW", EQUIPMENT, pc[a].item_id)
    /\ session' = [session EXCEPT ![a] = [state |-> NoState, data |-> NoData]]
    /\ pc' = [pc EXCEPT ![a] = Ready]
    /\ last' = Step(a, "process_equipment", "none", <<pc[a].item_id>>, NoCall,
                    <<"audit", "state">>)
    /\ UNCHANGED <<ledger, scope>>

process_component(a, text) ==
    /\ pc[a] = Ready
    /\ session[a].state = "INPUT_COMPONENT"
    /\ Sends(a, text)
    /\ text \in PlainTexts
    /\ LET parts == FieldParts[text]
           err   == component_error(parts)
       IN  IF err # ""
           THEN /\ last' = Step(a, "process_component", err, <<>>, NoCall,
                                <<"reply">>)
                /\ UNCHANGED <<ledger, pc>>
           ELSE LET f       == component_fields(parts)
                    item_id == new_id(ledger, COMPONENTS)
                IN  /\ Len(ledger[COMPONENTS]) < MaxItems
                    /\ LogRoom
                    /\ ledger' = insert(ledger, COMPONENTS,
                           NewComponent(f.name, IntOf(f.qty), f.size, f.comp_type))
                    /\ pc' = [pc EXCEPT ![a] =
                                 [at |-> "component_log", item_id |-> item_id]]
                    /\ last' = Step(a, "process_component", "added_component",
                                    <<item_id>>,
                                    <<"add_new_component", COMPONENTS, item_id,
                                      IntOf(f.qty)>>,
                                    <<"store", "reply">>)
    /\ UNCHANGED <<audit, session, scope>>

process_component_log(a) ==
    /\ pc[a].at = "component_log"
    /\ audit' = log_action(audit, a, "ADD_NEW", COMPONENTS, pc[a].item_id)
    /\ session' = [session EXCEPT ![a] = [state |-> NoState, data |-> NoData]]
    /\ pc' = [pc EXCEPT ![a] = Ready]
    /\ last' = Step(a, "process_component", "none", <<pc[a].item_id>>, NoCall,
                    <<"audit", "state">>)
    /\ UNCHANGED <<ledger, scope>>

\* A text message no handler's filters accept: the dispatcher drops it.
unhandled_message(a, text) ==
    /\ pc[a] = Ready
    /\ Sends(a, text)
    /\ text \in PlainTexts
    /\ session[a].state \notin {"INPUT_EQUIPMENT", "INPUT_COMPONENT"}
    /\ last' = Step(a, "unhandled_message", "none", <<>>, NoCall, <<>>)
    /\ UNCHANGED <<ledger, audit, session, pc, scope>>

\* A callback query process_type's filters reject: the dispatcher drops it.
unhandled_callback(a, data) ==
    /\ pc[a] = Ready
    /\ Presses(a, data)
    /\ ~type_filter(session[a].state, data)
    /\ last' = Step(a, "unhandled_callback", "none", <<>>, NoCall, <<>>)
    /\ UNCHANGED <<ledger, audit, session, pc, scope>>

Next ==
    \E a \in Actors :
        \/ \E text \in StartTexts : cmd_start(a, text)
        \/ \E text \in CancelTexts : cmd_cancel(a, text)
        \/ \E text \in SearchCmds : cmd_search(a, text)
        \/ \E text \in ModifyCmds : cmd_modify(a, text)
        \/ \E text \in AddNewTexts : cmd_add_new(a, text)
        \/ \E text \in PlainTexts : process_equipment(a, text)
        \/ \E text \in PlainTexts : process_component(a, text)
        \/ \E text \in PlainTexts : unhandled_message(a, text)
        \/ \E data \in CallbackData : process_type(a, data)
        \/ \E data \in CallbackData : unhandled_callback(a, data)
        \/ process_equipment_log(a)
        \/ process_component_log(a)

Spec == Init /\ [][Next]_vars

\* ================================================================ claims
Items == { <<t, i>> \in ItemTypes \X (1..(MaxItems + 1)) : Exists(ledger, t, i) }

\* C1: in every reachable state every item of the ledger has quantity >= 0.
C1_QuantityNonNegative ==
    \A it \in Items : ledger[it[1]][it[2]].quantity >= 0

\* ---------------------------------------------------------------------- C2
AddNewEntries(t, i) ==
    { k \in 1..Len(audit) :
          /\ audit[k].action = "ADD_NEW"
          /\ audit[k].item_type = t
          /\ audit[k].item_id = i }

LogPending(t, i) ==
    { a \in Actors :
          /\ pc[a].at = (IF t = EQUIPMENT THEN "equipment_log" ELSE "component_log")
          /\ pc[a].item_id = i }

\* Every inserted item has exactly one ADD_NEW entry, written or about to be
\* written by the handler that inserted it.
InsertAuditedOnce ==
    \A it \in Items :
        Cardinality(AddNewEntries(it[1], it[2]))
            + Cardinality(LogPending(it[1], it[2])) = 1

\* The handler that inserted writes its ADD_NEW entry for the item it made.
InsertLogged ==
    \A a \in Actors :
        (pc[a].at # "ready" /\ pc'[a] # pc[a]) =>
            audit' = Append(audit,
                [user_id |-> a, action |-> "ADD_NEW",
                 item_type |-> IF pc[a].at = "equipment_log" THEN EQUIPMENT
                                                             ELSE COMPONENTS,
                 item_id |-> pc[a].item_id])

\* The delta a step applied to the item its store call names.
AppliedDelta ==
    ledger'[last'.call[2]][last'.call[3]].quantity
        - ledger[last'.call[2]][last'.call[3]].quantity

Adjusted == last'.handler = "cmd_modify" /\ last'.reply = "updated"

QuantityChanged ==
    \E it \in Items :
        ledger'[it[1]][it[2]].quantity # ledger[it[1]][it[2]].quantity

AdjustEntry(action) ==
    [user_id |-> last'.actor, action |-> action,
     item_type |-> last'.call[2], item_id |-> last'.call[3]]

\* C2 as stated: every successful /add or /give appends exactly one entry
\* naming the item, ADD exactly when the applied delta is positive and GIVE
\* exactly when it is negative.
C2_SignedActionKind ==
    [][Adjusted =>
          \E action \in {"ADD", "GIVE", "SEARCH", "ADD_NEW"} :
              /\ audit' = Append(audit, AdjustEntry(action))
              /\ (action = "ADD") <=> (AppliedDelta > 0)
              /\ (action = "GIVE") <=> (AppliedDelta < 0)]_vars

\* C2, amended: every successful /add or /give appends exactly one entry
\* naming the item, ADD when the applied delta is positive and GIVE when it
\* is negative or zero; a quantity changes only in such a step; and every
\* inserted item gets exactly one ADD_NEW entry naming it.
C2_AuditedOnce ==
    /\ []InsertAuditedOnce
    /\ [][/\ Adjusted =>
                audit' = Append(audit,
                    AdjustEntry(IF AppliedDelta > 0 THEN "ADD" ELSE "GIVE"))
          /\ QuantityChanged => Adjusted
          /\ InsertLogged]_vars

C2_Witness ==
    /\ last.handler = "cmd_modify"
    /\ last.reply = "updated"
    /\ last.call[4] = 0
    /\ audit[Len(audit)].action = "GIVE"
    /\ audit[Len(audit)].item_id = last.call[3]
    /\ InsertAuditedOnce
    /\ Items # {}

\* ---------------------------------------------------------------------- C3
StoreRejects(l, call) ==
    ~(/\ Exists(l, call[2], call[3])
      /\ l[call[2]][call[3]].quantity + call[4] >= 0)

\* C3: a /add or /give the store rejects (no such item, or the quantity
\* would become negative) leaves ledger and audit log as they were and is
\* answered with the update-failure message.
C3_RejectedAdjust ==
    [][(/\ last'.handler = "cmd_modify"
        /\ last'.call # NoCall
        /\ StoreRejects(ledger, last'.call))
          => /\ ledger' = ledger
             /\ audit' = audit
             /\ last'.reply = "update_failed"]_vars

C3_Witness ==
    /\ last.handler = "cmd_modify"
    /\ last.reply = "update_failed"
    /\ last.call = <<"update_quantity", EQUIPMENT, 1, 0 - 2>>
    /\ Exists(ledger, EQUIPMENT, 1)
    /\ ledger[EQUIPMENT][1].quantity = 1

\* ---------------------------------------------------------------------- C4
QtyWords == {<<"0">>, <<"1">>, <<"2">>, <<"-", "1">>, <<"+", "1">>, <<"a">>}
IdWords  == {<<"1">>, <<"2">>}

AddText(t, idw, n)  == W(<<<<"/add">>, t, idw, n>>)
GiveText(t, idw, n) == W(<<<<"/give">>, t, idw, n>>)

\* C4: for every existing item (holding a quantity >= 0) and every integer n
\* the parser accepts, /add C id n followed at once by /give C id n leaves
\* the item's quantity as it was before the /add.
C4_RoundTrip ==
    \A t \in ItemTypes, idw \in IdWords, n \in QtyWords :
        (/\ Exists(ledger, t, IntOf(idw))
         /\ ledger[t][IntOf(idw)].quantity >= 0
         /\ IsInt(n)) =>
            LET l1 == modify_ledger(ledger, SplitWS(AddText(t, idw, n)))
                l2 == modify_ledger(l1, SplitWS(GiveText(t, idw, n)))
            IN  l2[t][IntOf(idw)].quantity = ledger[t][IntOf(idw)].quantity

\* ---------------------------------------------------------------------- C5
FSMStates == {NoState} \cup NewItemStates

Transition(a) ==
    LET old == session[a].state
        new == session'[a].state
        h   == last'.handler
    IN  \/ h = "cmd_add_new" /\ new = "CHOOSE_TYPE"
        \/ /\ process_type(a, "equipment")
           /\ old = "CHOOSE_TYPE" /\ new = "INPUT_EQUIPMENT"
        \/ /\ process_type(a, "component")
           /\ old = "CHOOSE_TYPE" /\ new = "INPUT_COMPONENT"
        \/ /\ h = "process_equipment" /\ pc[a].at = "equipment_log"
           /\ old = "INPUT_EQUIPMENT" /\ new = NoState
        \/ /\ h = "process_component" /\ pc[a].at = "component_log"
           /\ old = "INPUT_COMPONENT" /\ new = NoState
        \/ h = "cmd_cancel" /\ new = NoState

Qty(text, qpos) == field_parts(text)[qpos]

BadFields(text, count, qpos) ==
    \/ Len(field_parts(text)) # count
    \/ ~IsInt(Qty(text, qpos))

Reprompted ==
    /\ last'.reply \in {"error_count", "error_value"}
    /\ UNCHANGED <<ledger, audit, session, pc>>

\* C6: field input with a field count other than 3 (equipment) or 4
\* (component), or with a quantity field that is not an integer, is answered
\* with an error, inserts nothing, logs nothing and leaves the session in
\* its input state.
C6_InvalidFields ==
    [][\A a \in Actors, text \in PlainTexts :
          (/\ last'.actor = a
           /\ \/ process_equipment(a, text) /\ BadFields(text, 3, 3)
              \/ process_component(a, text) /\ BadFields(text, 4, 2))
              => Reprompted]_vars

C6_Witness ==
    /\ last.handler = "process_component"
    /\ last.reply = "error_value"
    /\ last.from = "INPUT_COMPONENT"
    /\ session[last.actor].state = "INPUT_COMPONENT"

\* ---------------------------------------------------------------------- C7
NegativeFields(text, count, qpos) ==
    /\ Len(field_parts(text)) = count
    /\ IsInt(Qty(text, qpos))
    /\ IntOf(Qty(text, qpos)) < 0

\* C7: field input whose quantity parses as a negative integer is answered
\* with an error, inserts nothing, logs nothing and leaves the session in
\* its input state.
C7_NegativeRejected ==
    [][\A a \in Actors, text \in PlainTexts :
          (/\ last'.actor = a
           /\ \/ process_equipment(a, text) /\ NegativeFields(text, 3, 3)
              \/ process_component(a, text) /\ NegativeFields(text, 4, 2))
              => Reprompted]_vars

\* ---------------------------------------------------------------------- C8
GoodFields(text, count, qpos) ==
    /\ Len(field_parts(text)) = count
    /\ IsInt(Qty(text, qpos))
    /\ IntOf(Qty(text, qpos)) >= 0

Committed(a, item_type, rec, reply, at) ==
    /\ session[a].data = item_type
    /\ ledger' = [ledger EXCEPT ![item_type] = Append(@, rec)]
    /\ last'.reply = reply
    /\ last'.body = <<Len(ledger'[item_type])>>
    /\ pc'[a] = [at |-> at, item_id |-> Len(ledger'[item_type])]

\* C8: valid field input adds exactly one item, in the category chosen at
\* CHOOSE_TYPE, with the fields taken by position (equipment: name, type,
\* quantity; component: name, quantity, size, type); every other item is
\* unchanged; the reply carries the id of the new item; and the handler
\* ends with the session in None.
C8_Commit ==
    [][\A a \in Actors :
          /\ \A text \in PlainTexts :
                /\ (/\ last'.handler = "process_equipment" /\ last'.actor = a
                    /\ process_equipment(a, text)
                    /\ GoodFields(text, 3, 3)) =>
                       LET ps == field_parts(text)
                       IN  Committed(a, EQUIPMENT,
                               [name |-> ps[1], type |-> ps[2],
                                quantity |-> IntOf(ps[3]), size |-> <<>>],
                               "added_equipment", "equipment_log")
                /\ (/\ last'.handler = "process_component" /\ last'.actor = a
                    /\ process_component(a, text)
                    /\ GoodFields(text, 4, 2)) =>
                       LET ps == field_parts(text)
                       IN  Committed(a, COMPONENTS,
                               [name |-> ps[1], quantity |-> IntOf(ps[2]),
                                size |-> ps[3], type |-> ps[4]],
                               "added_component", "component_log")
          /\ (pc[a].at # "ready" /\ pc'[a] # pc[a]) =>
                 /\ session'[a].state = NoState
                 /\ pc'[a] = Ready
                 /\ ledger' = ledger]_vars

C8_Witness ==
    /\ last.handler = "process_component"
    /\ last.events = <<"audit", "state">>
    /\ session[last.actor].state = NoState
    /\ Exists(ledger, COMPONENTS, last.body[1])
    /\ ledger[COMPONENTS][last.body[1]] =
           [name |-> N, quantity |-> 2, size |-> S, type |-> T]

\* ---------------------------------------------------------------------- C9
Pos(events, e) == FindFrom(events, e, 1)

\* C9: a step that mutates the ledger and answers the user has written the
\* audit entry in between: store mutation, audit append, reply.
C9_AuditBeforeReply ==
    (Pos(last.events, "store") > 0 /\ Pos(last.events, "reply") > 0) =>
        /\ Pos(last.events, "store") < Pos(last.events, "audit")
        /\ Pos(last.events, "audit") < Pos(last.events, "reply")

\* --------------------------------------------------------------------- C10
\* C10: /cancel in any session state leaves the sender's session in None
\* with no pending item_type, and changes neither ledger nor audit log.
C10_Cancel ==
    [][\A a \in Actors :
          (last'.handler = "cmd_cancel" /\ last'.actor = a) =>
              /\ session'[a] = [state |-> NoState, data |-> NoData]
              /\ ledger' = ledger
              /\ audit' = audit]_vars

C10_Witness ==
    /\ last.handler = "cmd_cancel"
    /\ last.from = "INPUT_COMPONENT"
    /\ session[last.actor] = [state |-> NoState, data |-> NoData]
    /\ Items # {}

\* --------------------------------------------------------------------- C11
\* /add or /give with a token count other than command + 3, a non-integer id
\* or magnitude, or an unknown category.
BadModifyTexts ==
    { t \in ModifyCmds :
          LET w == SplitWS(t)
          IN  \/ Len(w) # 4
              \/ ~IsInt(w[3])
              \/ ~IsInt(w[4])
              \/ w[2] \notin ItemTypes }

\* /search with fewer than two arguments.
BadSearchTexts == { t \in SearchCmds : Len(SplitWS(t)) < 3 }

NoStoreAccess(a) ==
    /\ last'.call = NoCall
    /\ last'.reply \in {"bad_format", "search_usage"}
    /\ ledger' = ledger
    /\ audit' = audit
    /\ session'[a] = session[a]

\* C11: a /add, /give or /search rejected as a formatting error makes no
\* store call, appends no audit entry, changes no item and leaves the
\* sender's session as it was.
C11_FormatErrors ==
    [][\A a \in Actors :
          /\ \A text \in BadModifyTexts :
                (/\ last'.actor = a
                 /\ last'.handler = "cmd_modify"
                 /\ cmd_modify(a, text)) => NoStoreAccess(a)
          /\ \A text \in BadSearchTexts :
                (/\ last'.actor = a
                 /\ last'.handler = "cmd_search"
                 /\ cmd_search(a, text)) => NoStoreAccess(a)]_vars

C11_Witness ==
    /\ last.handler = "cmd_modify"
    /\ last.reply = "bad_format"
    /\ last.call = NoCall
    /\ last.from = "INPUT_EQUIPMENT"
    /\ session[last.actor] = [state |-> "INPUT_EQUIPMENT", data |-> EQUIPMENT]
    /\ Items # {}

\* --------------------------------------------------------------------- C12
StoreCalls ==
    {"get_by_id", "update_quantity", "add_new_equipment", "add_new_component"}

\* C12: every call a handler makes to the ledger store (get_by_id,
\* update_quantity, insert) names one of the two known categories.
C12_KnownCategory ==
    (last.call # NoCall /\ last.call[1] \in StoreCalls) =>
        last.call[2] \in ItemTypes

\* --------------------------------------------------------------------- C13
SearchEntry(item_type, item_id) ==
    [user_id |-> last'.actor, action |-> "SEARCH",
     item_type |-> item_type, item_id |-> item_id]

\* The id lookup of this step names an item of the ledger.
IdFound ==
    /\ last'.call # NoCall
    /\ last'.call[1] = "get_by_id"
    /\ Exists(ledger, last'.call[2], last'.call[3])

\* The name search of this step matches the name of an item of the ledger.
NameFound ==
    /\ last'.call # NoCall
    /\ last'.call[1] = "search_by_name"
    /\ \E it \in Items :
           Contains(LowerText(ledger[it[1]][it[2]].name),
                    LowerText(last'.call[2]))

\* C13: a /search that finds an item by id appends exactly one SEARCH entry
\* with the item's category and id; one that finds items by name appends
\* exactly one SEARCH entry with category ALL and id 0; one that finds
\* nothing appends no entry; and no /search changes the ledger.
C13_SearchAudit ==
    [][last'.handler = "cmd_search" =>
          /\ ledger' = ledger
          /\ IF IdFound
                THEN audit' = Append(audit,
                         SearchEntry(last'.call[2], last'.call[3]))
                ELSE IF NameFound
                THEN audit' = Append(audit, SearchEntry(<<"ALL">>, 0))
                ELSE audit' = audit]_vars

C13_Witness ==
    /\ last.handler = "cmd_search"
    /\ last.reply = "results"
    /\ last.body = {<<EQUIPMENT, 1>>}
    /\ audit # <<>>
    /\ audit[Len(audit)] = [user_id |-> last.actor, action |-> "SEARCH",
                            item_type |-> <<"ALL">>, item_id |-> 0]

\* --------------------------------------------------------------------- C14
Restarts(a) ==
    /\ last'.actor = a
    /\ last'.handler = "cmd_add_new"
    /\ session[a].state \in NewItemStates

NoInsert == \A t \in ItemTypes : Len(ledger'[t]) = Len(ledger[t])

ShownQuantity == last'.body[4]

C16_GiveNegates ==
    [][\A a \in Actors, text \in ModifyCmds :
          (/\ last'.actor = a
           /\ last'.handler = "cmd_modify"
           /\ last'.call # NoCall
           /\ cmd_modify(a, text)) =>
              LET w == SplitWS(text)
                  m == IntOf(w[4])
              IN  last'.call[4] = IF w[1] = <<"/give">> THEN 0 - m ELSE m]_vars

\* --------------------------------------------------------------------- C17
Awaiting == {"INPUT_EQUIPMENT", "INPUT_COMPONENT"}

OthersAwait(b) == \E a \in Actors \ {b} : session[a].state \in Awaiting

\* C17: a step taken for one actor leaves the session (state and pending
\* category) of every other actor as it was; and while another actor's
\* session is in an input state, an actor's /add, /give and /search are
\* handled by cmd_modify and cmd_search as commands: the adjustment is
\* applied to the ledger and answered, the lookup is answered.
C17_Isolation ==
    [][\A b \in Actors :
          /\ last'.actor # b => session'[b] = session[b]
          /\ \A text \in ModifyCmds :
                (/\ last'.actor = b
                 /\ OthersAwait(b)
                 /\ cmd_modify(b, text)) =>
                    /\ ledger' = modify_ledger(ledger, SplitWS(text))
                    /\ last'.reply \in {"updated", "update_failed",
                                        "bad_format"}
          /\ \A text \in SearchCmds :
                (/\ last'.actor = b
                 /\ OthersAwait(b)
                 /\ cmd_search(b, text)) =>
                    last'.reply \in {"item", "not_found", "results",
                                     "no_results", "search_usage"}]_vars

C17_Witness ==
    /\ last.handler = "cmd_modify"
    /\ last.reply = "updated"
    /\ last.actor = 2
    /\ session[2] = [state |-> NoState, data |-> NoData]
    /\ session[1] = [state |-> "INPUT_EQUIPMENT", data |-> EQUIPMENT]
    /\ pc[1] = Ready

\* --------------------------------------------------------------------- C18
CommandTexts == StartTexts \cup SearchCmds \cup ModifyCmds

\* Some message handler takes the text sent by a.
Handles(a, text) ==
    \/ last'.handler = "cmd_start" /\ cmd_start(a, text)
    \/ last'.handler = "cmd_search" /\ cmd_search(a, text)
    \/ last'.handler = "cmd_modify" /\ cmd_modify(a, text)
    \/ last'.handler = "process_equipment" /\ process_equipment(a, text)
    \/ last'.handler = "process_component" /\ process_component(a, text)
    \/ last'.handler = "unhandled_message" /\ unhandled_message(a, text)

\* C18: while the sender's session is in INPUT_EQUIPMENT or INPUT_COMPONENT,
\* a /start, /search, /add or /give message is handled by cmd_start,
\* cmd_search or cmd_modify and never by a field-input handler: no item is
\* inserted and the session keeps its state and pending category.
C18_CommandsNotFields ==
    [][\A a \in Actors, text \in CommandTexts :
          (/\ last'.actor = a
           /\ session[a].state \in Awaiting
           /\ Handles(a, text)) =>
              /\ last'.handler \in {"cmd_start", "cmd_search", "cmd_modify"}
              /\ NoInsert
              /\ session'[a] = session[a]]_vars

C18_Witness ==
    /\ last.handler = "cmd_modify"
    /\ last.reply = "updated"
    /\ last.from = "INPUT_EQUIPMENT"
    /\ session[last.actor] = [state |-> "INPUT_EQUIPMENT", data |-> EQUIPMENT]
    /\ Len(ledger[EQUIPMENT]) = 1

\* --------------------------------------------------------------------- C19
NamesSameItem(j, k) ==
    /\ audit[j].item_type = audit[k].item_type
    /\ audit[j].item_id = audit[k].item_id

\* C19: in the audit log every ADD or GIVE entry is preceded by the ADD_NEW
\* entry of the item it names, and every ADD, GIVE or ADD_NEW entry names
\* an item the ledger already holds.
C19_AuditOrder ==
    \A k \in 1..Len(audit) :
        /\ audit[k].action \in {"ADD", "GIVE"} =>
               \E j \in 1..(k - 1) :
                   audit[j].action = "ADD_NEW" /\ NamesSameItem(j, k)
        /\ audit[k].action \in {"ADD", "GIVE", "ADD_NEW"} =>
               Exists(ledger, audit[k].item_type, audit[k].item_id)

====
